---- MODULE Spec2Model ----
(***************************************************************************)
(* A model of libbitcoin's network::channel_proxy (channel_proxy.cpp): the *)
(* stop transition, the subscribers, the read pipeline, the three timers   *)
(* and the send path of one channel.                                       *)
(*                                                                         *)
(* Threads.  The code of one channel runs on several threads at once: the  *)
(* thread of whoever calls the public interface ("caller"), the strand the *)
(* read-completion handlers are bound to by dispatch_.sync ("strand"), and *)
(* the pool workers that run the tasks given to dispatch_.queue and the    *)
(* timer handlers ("pool").  A thread is a sequence of pending operations; *)
(* one step of the model is one access of a thread to the state shared     *)
(* with the other threads (a read of stopped_, a call on a subscriber, on  *)
(* a timer or on the socket).  A function that starts `if (stopped())      *)
(* return;` therefore takes two steps: the test (pc = 0) and what follows  *)
(* it (pc = 1), and another thread may run in between.                     *)
(***************************************************************************)
EXTENDS Naturals, Sequences, FiniteSets, Bags, TLC

\* ------------------------------------------------------------- bounds
MaxHandlers == 2      \* handlers passed to subscribe_* over the lifetime
MaxSends == 2         \* messages given to send_raw over the lifetime
MaxEvents == 2        \* events from outside the channel after construction:
                      \* subscribe_*, stop, set_revival_handler calls,
                      \* timer fires, arriving headers, read errors

\* ---------------------------------------------------------- constants
magic_value == 1      \* bc::magic_value, the configured network magic
checksum_size == 1    \* message::header::checksum_size, in model bytes
PayloadLimit == 1     \* the upper bound on payload_length the spec asks for

Byte == {0, 1}
Lengths == 0..(PayloadLimit + 1)                \* payload_length within and above the bound
Messages == <<"version">>                       \* the registered message types
MessageSet == {Messages[i] : i \in 1..Len(Messages)}
Kinds == MessageSet \cup {"raw", "stop"}        \* one subscriber each
Commands == MessageSet \cup {"xyzzy"}           \* "xyzzy" is in no registry
Timers == {"expiration", "inactivity", "revival"}
StopReasons == {"custom_error"}                 \* reasons given to stop(reason)
TransportErrors == {"eof"}                      \* errors of a read on an open socket

VARIABLES
    stopped_,           \* channel_proxy::stopped_
    socket_,            \* "open" or "closed"
    timers,             \* expiration_, inactivity_, revival_: "idle" or "armed"
    revival_handler_,   \* TRUE when a revival handler is installed
    subs,               \* the subscribers: pending handlers and terminal status
    handlers,           \* what each handler given to subscribe_* has received
    reads,              \* the outstanding async_read operations
    caller,             \* the operations the calling thread has still to do
    strand,             \* the operations the running read handler has still to do
    pool,               \* the queued tasks, each a sequence of operations
    started,            \* start() was called
    destroyed,          \* the destructor ran
    given,              \* the statuses given to stop() on a channel not yet
                        \* stopped
    clears,             \* the number of clear_subscriptions runs
    revived,            \* calls of the revival handler
    events,             \* the events from outside so far
    frames,             \* the headers accepted so far
    writes,             \* the outstanding async_write operations
    sends               \* what each handler given to send_raw has received

vars == <<stopped_, socket_, timers, revival_handler_, subs, handlers, reads,
          caller, strand, pool, started, destroyed, given, clears, revived,
          events, frames, writes, sends>>

\* ------------------------------------------------------------ records
NoHeader == [magic |-> 0, command |-> "", payload_length |-> 0, checksum |-> 0]

\* An operation a thread has still to do: the function f with its arguments
\* (a status ec, a subscriber kind k, a handler h, a count of bytes
\* transferred, a header hdr, a payload p)
\* and the position pc it has reached in f.
O(f) == [f |-> f, pc |-> 0, ec |-> "success", k |-> "", h |-> 0,
         bytes |-> 0, hdr |-> NoHeader, p |-> <<>>]

\* What a handler given to subscribe_* has received: the number n of its
\* invocations, the status st and the value val of the last one, and how it
\* came: "call" from the subscribe_* call itself, "subscriber" from the
\* subscriber at registration, "relay" from a relay to the pending handlers.
NoHandler == [k |-> "", n |-> 0, st |-> "success", val |-> "none",
              how |-> ""]

Step(op) == [op EXCEPT !.pc = @ + 1]

Invoke(hr, st, val, how) ==
    [hr EXCEPT !.n = @ + 1, !.st = st, !.val = val, !.how = how]

\* The handler the next subscribe_* call passes: handlers are numbered in the
\* order of the calls.
Unused == {h \in 1..MaxHandlers : handlers[h].k = ""}
NextHandler == CHOOSE h \in Unused : \A g \in Unused : h <= g

\* ---------------------------------------------------------- subscriber
\* subscriber<Args...> (utility/subscriber.hpp) is not among the sources: it
\* is modelled from the specification's "Typed Subscriber".  ch is the pair
\* [s |-> the subscribers, h |-> the handlers].

\* relay(status, value): detach all pending handlers and invoke each; a
\* non-success status is terminal for the subscriber.
relay(ch, k, ec, val) ==
    [s |-> [ch.s EXCEPT ![k] =
                [pending |-> {},
                 term |-> IF @.term = "success" THEN ec ELSE @.term]],
     h |-> [h \in DOMAIN ch.h |->
                IF h \in ch.s[k].pending
                    THEN Invoke(ch.h[h], ec, val, "relay")
                    ELSE ch.h[h]]]

\* subscribe(handler): append to the pending list; after a terminal relay
\* the handler is answered with the terminal status at once.
subscriber_subscribe(ch, k, h) ==
    IF ch.s[k].term # "success"
        THEN [s |-> ch.s,
              h |-> [ch.h EXCEPT ![h] = Invoke(@, ch.s[k].term, "default", "subscriber")]]
        ELSE [s |-> [ch.s EXCEPT ![k].pending = @ \cup {h}], h |-> ch.h]

\* ------------------------------------------------------------ threads
\* The threads that have an operation to do.
Running ==
    {[who |-> "caller", ops |-> caller] : x \in IF caller = <<>> THEN {} ELSE {1}}
    \cup {[who |-> "strand", ops |-> strand] : x \in IF strand = <<>> THEN {} ELSE {1}}
    \cup {[who |-> "pool", ops |-> t] : t \in BagToSet(pool)}

\* dispatcher::queue (utility/dispatcher.hpp) is not among the sources: by
\* the specification's "Dispatcher" a queued task runs on some worker of the
\* pool, so the queue is a bag of tasks any of which may take the next step.
queue(tasks, spawn) == tasks (+) SetToBag(spawn)

\* The functions that begin `if (stopped()) return;` and do nothing else
\* when the channel is stopped.  stopped_ never becomes false again, so once
\* it is true the test of such an operation can only fail, whenever it is
\* made: the operation is skipped at once instead of in a step of its own.
Returns ==
    {"do_stop", "stop", "read_header", "read_checksum", "read_payload",
     "start_timers", "start_expiration", "start_inactivity", "start_revival",
     "handle_read_header", "handle_read_checksum", "handle_read_payload",
     "handle_expiration", "handle_inactivity", "handle_revival"}

RECURSIVE Live(_)
Live(ops) ==
    IF ops = <<>> THEN <<>>
    ELSE IF Head(ops).pc = 0 /\ Head(ops).f \in Returns THEN Live(Tail(ops))
    ELSE ops

LiveTasks(tasks) ==
    LET keep == {t \in BagToSet(tasks) : Live(t) = t}
    IN  [t \in keep |-> tasks[t]]

\* Thread th goes on with the operations new, and the tasks spawn are queued.
Cont(th, new, spawn) ==
    LET next == IF stopped_ THEN Live(new) ELSE new IN
    /\ caller' = IF th.who = "caller" THEN next ELSE caller
    /\ strand' = IF th.who = "strand" THEN next ELSE strand
    /\ pool' = LET rest == IF th.who = "pool"
                              THEN pool (-) SetToBag({th.ops}) ELSE pool
                   kept == IF th.who = "pool" /\ next # <<>>
                              THEN rest (+) SetToBag({next}) ELSE rest
               IN queue(kept, spawn)

\* The head operation of th has taken one step and is not finished.
Again(th) == <<Step(Head(th.ops))>> \o Tail(th.ops)

\* ----------------------------------------------------------- stopping
\* stop(ec): `if (stopped()) return; dispatch_.queue(do_stop, ec)`.  The
\* value is the set of tasks the call queues.  The test and the queueing
\* are one step: a do_stop queued after another thread has set stopped_
\* returns at its own test, as if stop() had returned.
stop(ec) ==
    IF stopped_ THEN {} ELSE {<<[O("do_stop") EXCEPT !.ec = ec]>>}

\* The statuses given so far, after stop(ec) is called: a call on a stopped
\* channel returns at its test and gives nothing.
Given(ec) == IF stopped_ THEN given ELSE given \cup {ec}

\* clear_timers(): cancel the three timers, drop the revival handler.
clear_timers ==
    /\ timers' = [t \in Timers |-> "idle"]
    /\ revival_handler_' = FALSE

\* notify_stop<Message>(subscriber): relay(channel_stopped, Message()).
notify_stop(ch, k) == relay(ch, k, "channel_stopped", "default")

RECURSIVE notify_stop_all(_, _)
notify_stop_all(ch, i) ==
    IF i > Len(Messages) THEN ch
    ELSE notify_stop_all(notify_stop(ch, Messages[i]), i + 1)

\* clear_subscriptions as it would be if the typed subscribers were relayed
\* ec like the raw and the stop subscriber.
clear_subscriptions_all_ec(ec) ==
    LET a == relay([s |-> subs, h |-> handlers], Messages[1], ec, "default")
        b == relay(a, "raw", ec, "default")
        c == relay(b, "stop", ec, "none")
    IN  /\ subs' = c.s
        /\ handlers' = c.h
        /\ clears' = clears + 1

\* clear_subscriptions as it would be if the stop subscriber were relayed
\* channel_stopped like the typed subscribers.
clear_subscriptions_all_stopped(ec) ==
    LET a == notify_stop_all([s |-> subs, h |-> handlers], 1)
        b == relay(a, "raw", ec, "default")
        c == relay(b, "stop", "channel_stopped", "none")
    IN  /\ subs' = c.s
        /\ handlers' = c.h
        /\ clears' = clears + 1

\* clear_subscriptions(ec): notify_stop for every message type, then the
\* raw and the stop subscriber are relayed ec.
clear_subscriptions(ec) ==
    LET a == notify_stop_all([s |-> subs, h |-> handlers], 1)
        b == relay(a, "raw", ec, "default")
        c == relay(b, "stop", ec, "none")
    IN  /\ subs' = c.s
        /\ handlers' = c.h
        /\ clears' = clears + 1

\* do_stop(ec), run by a pool worker.
do_stop(th) ==
    LET op == Head(th.ops) IN
    /\ op.f = "do_stop"
    /\ CASE op.pc = 0 ->        \* if (stopped()) return;
              /\ Cont(th, IF stopped_ THEN Tail(th.ops) ELSE Again(th), {})
              /\ UNCHANGED <<stopped_, socket_, timers, revival_handler_,
                             subs, handlers, clears>>
         [] op.pc = 1 ->        \* stopped_ = true;
              /\ stopped_' = TRUE
              /\ caller' = Live(caller)
              /\ strand' = Live(strand)
              /\ pool' = LiveTasks(pool (-) SetToBag({th.ops}))
                            (+) SetToBag({Again(th)})
              /\ UNCHANGED <<socket_, timers, revival_handler_, subs,
                             handlers, clears>>
         [] op.pc = 2 ->        \* clear_timers(); socket_->shutdown, close
              /\ clear_timers
              /\ socket_' = "closed"
              /\ Cont(th, Again(th), {})
              /\ UNCHANGED <<stopped_, subs, handlers, clears>>
         [] OTHER ->            \* clear_subscriptions(ec);
              /\ clear_subscriptions(op.ec)
              /\ Cont(th, Tail(th.ops), {})
              /\ UNCHANGED <<stopped_, socket_, timers, revival_handler_>>
    /\ UNCHANGED <<reads, started, destroyed, given, events, revived,
                   frames,
                   writes, sends>>

\* stop(reason) called from outside the channel, on any thread.
Stop ==
    /\ ~destroyed
    /\ events < MaxEvents
    /\ \E ec \in StopReasons :
        /\ pool' = queue(pool, stop(ec))
        /\ given' = Given(ec)
    /\ events' = IF stopped_ THEN events ELSE events + 1
    /\ UNCHANGED <<stopped_, socket_, timers, revival_handler_, subs,
                   handlers, reads, caller, strand, started, destroyed,
                   clears, revived,
                   frames,
                   writes, sends>>

\* ---------------------------------------------------------- subscribing
\* A subscribe_* call begins on the calling thread with a fresh handler.
Subscribe ==
    /\ ~destroyed
    /\ caller = <<>>
    /\ Unused # {}
    /\ events < MaxEvents
    /\ events' = events + 1
    /\ \E k \in Kinds :
        LET f == IF k \in MessageSet THEN "subscribe_message"
                 ELSE IF k = "raw" THEN "subscribe_raw" ELSE "subscribe_stop"
        IN  /\ caller' = <<[O(f) EXCEPT !.k = k, !.h = NextHandler]>>
            /\ handlers' = [handlers EXCEPT ![NextHandler] =
                   [NoHandler EXCEPT !.k = k]]
    /\ UNCHANGED <<stopped_, socket_, timers, revival_handler_, subs, reads,
                   strand, pool, started, destroyed, given, clears,
                   revived,
                   frames,
                   writes, sends>>

\* subscribe_version .. subscribe_pong: if stopped, the handler is called
\* with channel_stopped and a default message; else subscribe<Message>().
subscribe_message(th) ==
    LET op == Head(th.ops) IN
    /\ op.f = "subscribe_message"
    /\ IF stopped_
         THEN /\ handlers' = [handlers EXCEPT ![op.h] =
                     Invoke(@, "channel_stopped", "default", "call")]
              /\ Cont(th, Tail(th.ops), {})
         ELSE /\ Cont(th, <<[op EXCEPT !.f = "subscribe"]>> \o Tail(th.ops), {})
              /\ UNCHANGED handlers
    /\ UNCHANGED <<stopped_, socket_, timers, revival_handler_, subs, reads,
                   started, destroyed, given, clears, events, revived,
                   frames,
                   writes, sends>>

\* subscribe<Message>(subscriber, handler): if stopped, the subscriber is
\* relayed channel_stopped (the handler is not registered), else the
\* handler is registered.
subscribe(th) ==
    LET op == Head(th.ops)
        ch == [s |-> subs, h |-> handlers]
        to == IF op.pc = 0 THEN relay(ch, op.k, "channel_stopped", "default")
              ELSE subscriber_subscribe(ch, op.k, op.h)
    IN
    /\ op.f = "subscribe"
    /\ IF op.pc = 0 /\ ~stopped_
         THEN /\ Cont(th, Again(th), {})
              /\ UNCHANGED <<subs, handlers>>
         ELSE /\ subs' = to.s
              /\ handlers' = to.h
              /\ Cont(th, Tail(th.ops), {})
    /\ UNCHANGED <<stopped_, socket_, timers, revival_handler_, reads,
                   started, destroyed, given, clears, events, revived,
                   frames,
                   writes, sends>>

\* subscribe_raw and subscribe_stop as they would be if a stopped channel
\* answered with the reason it was stopped for.
subscribe_direct_reason(th, val) ==
    LET op == Head(th.ops)
        to == subscriber_subscribe([s |-> subs, h |-> handlers], op.k, op.h)
    IN
    /\ IF op.pc = 0
         THEN IF stopped_
                THEN /\ handlers' = [handlers EXCEPT ![op.h] =
                            Invoke(@, CHOOSE ec \in given : TRUE, val, "call")]
                     /\ Cont(th, Tail(th.ops), {})
                     /\ UNCHANGED subs
                ELSE /\ Cont(th, Again(th), {})
                     /\ UNCHANGED <<subs, handlers>>
         ELSE /\ subs' = to.s
              /\ handlers' = to.h
              /\ Cont(th, Tail(th.ops), {})
    /\ UNCHANGED <<stopped_, socket_, timers, revival_handler_, reads,
                   started, destroyed, given, clears, events, revived,
                   frames,
                   writes, sends>>

\* subscribe_raw(handler) and subscribe_stop(handler): if stopped, the
\* handler is called with channel_stopped, else it is registered.
subscribe_direct(th, val) ==
    LET op == Head(th.ops)
        to == subscriber_subscribe([s |-> subs, h |-> handlers], op.k, op.h)
    IN
    /\ IF op.pc = 0
         THEN IF stopped_
                THEN /\ handlers' = [handlers EXCEPT ![op.h] =
                            Invoke(@, "channel_stopped", val, "call")]
                     /\ Cont(th, Tail(th.ops), {})
                     /\ UNCHANGED subs
                ELSE /\ Cont(th, Again(th), {})
                     /\ UNCHANGED <<subs, handlers>>
         ELSE /\ subs' = to.s
              /\ handlers' = to.h
              /\ Cont(th, Tail(th.ops), {})
    /\ UNCHANGED <<stopped_, socket_, timers, revival_handler_, reads,
                   started, destroyed, given, clears, events, revived,
                   frames,
                   writes, sends>>

subscribe_raw(th) ==
    /\ Head(th.ops).f = "subscribe_raw"
    /\ subscribe_direct(th, "default")

subscribe_stop(th) ==
    /\ Head(th.ops).f = "subscribe_stop"
    /\ subscribe_direct(th, "none")

\* --------------------------------------------------------------- timers
\* The handler bound to each timer, and deadline::canceled(ec).
HandlerOf ==
    [expiration |-> "handle_expiration", inactivity |-> "handle_inactivity",
     revival |-> "handle_revival"]
TimerHandlers == {HandlerOf[t] : t \in Timers}
canceled(ec) == ec = "operation_aborted"

\* deadline (utility/deadline.hpp) is not among the sources: by the
\* specification's "Deadline Timer" a start replaces the pending schedule,
\* whose handler is then invoked with the cancelled status, on a worker.
\* The value is the set of tasks the start of timer t queues.  The handlers
\* of the timers that clear_timers cancels are invoked on a stopped channel
\* and return at their test (see Returns).
replaced(t) ==
    IF timers[t] = "armed" /\ ~stopped_
        THEN {<<[O(HandlerOf[t]) EXCEPT !.ec = "operation_aborted"]>>}
        ELSE {}

\* start_expiration / start_inactivity / start_revival:
\* `if (stopped()) return; timer->start(handler)`.
start_timer(th, t) ==
    LET op == Head(th.ops) IN
    /\ IF op.pc = 0
         THEN /\ Cont(th, IF stopped_ THEN Tail(th.ops) ELSE Again(th), {})
              /\ UNCHANGED timers
         ELSE /\ timers' = [timers EXCEPT ![t] = "armed"]
              /\ Cont(th, Tail(th.ops), replaced(t))
    /\ UNCHANGED <<stopped_, socket_, revival_handler_, subs, handlers, reads,
                   started, destroyed, given, clears, events, revived,
                   frames,
                   writes, sends>>

start_expiration(th) ==
    /\ Head(th.ops).f = "start_expiration"
    /\ start_timer(th, "expiration")

start_inactivity(th) ==
    /\ Head(th.ops).f = "start_inactivity"
    /\ start_timer(th, "inactivity")

start_revival(th) ==
    /\ Head(th.ops).f = "start_revival"
    /\ start_timer(th, "revival")

\* start_timers as it would be without start_expiration().
start_timers_no_expiration(th) ==
    /\ Head(th.ops).f = "start_timers"
    /\ Cont(th, IF stopped_ THEN Tail(th.ops)
                ELSE <<O("start_revival"), O("start_inactivity")>>
                     \o Tail(th.ops), {})
    /\ UNCHANGED <<stopped_, socket_, timers, revival_handler_, subs,
                   handlers, reads, started, destroyed, given, clears,
                   events, revived,
                   frames,
                   writes, sends>>

\* start_timers(): if (stopped()) return; then the three starts in order.
start_timers(th) ==
    /\ Head(th.ops).f = "start_timers"
    /\ Cont(th, IF stopped_ THEN Tail(th.ops)
                ELSE <<O("start_expiration"), O("start_revival"),
                       O("start_inactivity")>> \o Tail(th.ops), {})
    /\ UNCHANGED <<stopped_, socket_, timers, revival_handler_, subs,
                   handlers, reads, started, destroyed, given, clears,
                   events, revived,
                   frames,
                   writes, sends>>

\* The handler of a timer as it would be without the test of
\* deadline::canceled(ec).
handle_timer_any_status(th) ==
    LET op == Head(th.ops) IN
    /\ op.f \in TimerHandlers
    /\ IF stopped_
         THEN /\ Cont(th, Tail(th.ops), {})
              /\ UNCHANGED <<given, revived>>
         ELSE IF op.f = "handle_revival"
         THEN /\ revived' = IF revival_handler_ THEN revived + 1 ELSE revived
              /\ Cont(th, Tail(th.ops), {})
              /\ UNCHANGED given
         ELSE /\ Cont(th, Tail(th.ops), stop("channel_timeout"))
              /\ given' = Given("channel_timeout")
              /\ UNCHANGED revived
    /\ UNCHANGED <<stopped_, socket_, timers, revival_handler_, subs,
                   handlers, reads, started, destroyed, clears, events,
                   frames, writes, sends>>

\* handle_expiration(ec), handle_inactivity(ec), handle_revival(ec) run by a
\* worker with the status ec of the wait:
\* `if (stopped()) return; if (deadline::canceled(ec)) return;` and then
\* stop(channel_timeout), or the revival handler if one is installed.
handle_timer(th) ==
    LET op == Head(th.ops) IN
    /\ op.f \in TimerHandlers
    /\ IF stopped_ \/ canceled(op.ec)
         THEN /\ Cont(th, Tail(th.ops), {})
              /\ UNCHANGED <<given, revived>>
         ELSE IF op.f = "handle_revival"
         THEN /\ revived' = IF revival_handler_ THEN revived + 1 ELSE revived
              /\ Cont(th, Tail(th.ops), {})
              /\ UNCHANGED given
         ELSE /\ Cont(th, Tail(th.ops), stop("channel_timeout"))
              /\ given' = Given("channel_timeout")
              /\ UNCHANGED revived
    /\ UNCHANGED <<stopped_, socket_, timers, revival_handler_, subs,
                   handlers, reads, started, destroyed, clears, events,
                   frames, writes, sends>>

\* handle_expiration and handle_inactivity as they would be if they only
\* logged the timeout.
handle_timeout_logs(t) ==
    /\ ~destroyed
    /\ timers[t] = "armed"
    /\ events < MaxEvents
    /\ events' = events + 1
    /\ timers' = [timers EXCEPT ![t] = "idle"]
    /\ UNCHANGED <<stopped_, socket_, revival_handler_, subs, handlers, reads,
                   caller, strand, pool, given, started, destroyed, clears,
                   revived,
                   frames,
                   writes, sends>>

\* A timer fires (not cancelled) and its handler runs on a pool worker:
\* handle_expiration and handle_inactivity call stop(channel_timeout)
\* unless the channel is stopped.
handle_timeout(t) ==
    /\ ~destroyed
    /\ timers[t] = "armed"
    /\ events < MaxEvents
    /\ events' = events + 1
    /\ timers' = [timers EXCEPT ![t] = "idle"]
    /\ pool' = queue(pool, stop("channel_timeout"))
    /\ given' = Given("channel_timeout")
    /\ UNCHANGED <<stopped_, socket_, revival_handler_, subs, handlers, reads,
                   caller, strand, started, destroyed, clears,
                   revived,
                   frames,
                   writes, sends>>

handle_expiration == handle_timeout("expiration")

\* The expiration timer runs out, whatever else has happened: it is started
\* once, by start_timers, so this fire needs no bound on the events.
expire ==
    /\ ~destroyed
    /\ timers["expiration"] = "armed"
    /\ timers' = [timers EXCEPT !["expiration"] = "idle"]
    /\ pool' = queue(pool, stop("channel_timeout"))
    /\ given' = Given("channel_timeout")
    /\ UNCHANGED <<stopped_, socket_, revival_handler_, subs, handlers, reads,
                   caller, strand, started, destroyed, clears, events,
                   revived, frames, writes, sends>>

handle_inactivity == handle_timeout("inactivity")

\* handle_revival as it would be if the revival timer stopped the channel
\* like the other two.
handle_revival_stops ==
    /\ ~destroyed
    /\ timers["revival"] = "armed"
    /\ events < MaxEvents
    /\ events' = events + 1
    /\ timers' = [timers EXCEPT !["revival"] = "idle"]
    /\ revived' = IF ~stopped_ /\ revival_handler_ THEN revived + 1 ELSE revived
    /\ pool' = queue(pool, stop("channel_timeout"))
    /\ given' = Given("channel_timeout")
    /\ UNCHANGED <<stopped_, socket_, revival_handler_, subs, handlers, reads,
                   caller, strand, started, destroyed,
                   clears, frames, writes, sends>>

\* handle_revival: calls the revival handler if one is installed.
handle_revival ==
    /\ ~destroyed
    /\ timers["revival"] = "armed"
    /\ events < MaxEvents
    /\ events' = events + 1
    /\ timers' = [timers EXCEPT !["revival"] = "idle"]
    /\ revived' = IF ~stopped_ /\ revival_handler_ THEN revived + 1 ELSE revived
    /\ UNCHANGED <<stopped_, socket_, revival_handler_, subs, handlers, reads,
                   caller, strand, pool, started, destroyed, given,
                   clears, frames, writes, sends>>

\* set_revival_handler(handler): if (stopped()) return; install it.
set_revival_handler ==
    /\ ~destroyed
    /\ ~revival_handler_
    /\ events < MaxEvents
    /\ events' = IF stopped_ THEN events ELSE events + 1
    /\ revival_handler_' = ~stopped_
    /\ UNCHANGED <<stopped_, socket_, timers, subs, handlers, reads, caller,
                   strand, pool, started, destroyed, given, clears,
                   revived,
                   frames,
                   writes, sends>>

\* reset_revival(): if (stopped()) return; start_revival();
reset_revival ==
    /\ ~destroyed
    /\ caller = <<>>
    /\ events < MaxEvents
    /\ events' = IF stopped_ THEN events ELSE events + 1
    /\ caller' = IF stopped_ THEN caller ELSE <<O("start_revival")>>
    /\ UNCHANGED <<stopped_, socket_, timers, revival_handler_, subs,
                   handlers, reads, strand, pool, started, destroyed, given,
                   clears, revived, frames, writes, sends>>

\* ------------------------------------------------------- read pipeline
\* read_header / read_checksum / read_payload:
\* `if (stopped()) return; async_read(*socket_, ...)`.
async_read(th, kind) ==
    LET op == Head(th.ops) IN
    /\ IF op.pc = 0
         THEN /\ Cont(th, IF stopped_ THEN Tail(th.ops) ELSE Again(th), {})
              /\ UNCHANGED reads
         ELSE /\ reads' = Append(reads, [kind |-> kind, hdr |-> op.hdr])
              /\ Cont(th, Tail(th.ops), {})
    /\ UNCHANGED <<stopped_, socket_, timers, revival_handler_, subs,
                   handlers, started, destroyed, given, clears, events,
                   revived,
                   frames,
                   writes, sends>>

read_header(th) ==
    /\ Head(th.ops).f = "read_header"
    /\ async_read(th, "header")

read_checksum(th) ==
    /\ Head(th.ops).f = "read_checksum"
    /\ async_read(th, "checksum")

\* read_payload also resizes inbound_payload_ to header.payload_length.
read_payload(th) ==
    /\ Head(th.ops).f = "read_payload"
    /\ async_read(th, "payload")

\* start() as it would be if it were called again on a started channel.
start_again ==
    /\ ~destroyed
    /\ caller = <<>>
    /\ started' = TRUE
    /\ caller' = <<O("read_header"), O("start_timers")>>
    /\ UNCHANGED <<stopped_, socket_, timers, revival_handler_, subs,
                   handlers, reads, strand, pool, destroyed, given,
                   clears, events, revived,
                   frames,
                   writes, sends>>

\* start(): read_header(); start_timers();
start ==
    /\ ~destroyed
    /\ ~started
    /\ caller = <<>>
    /\ started' = TRUE
    /\ caller' = <<O("read_header"), O("start_timers")>>
    /\ UNCHANGED <<stopped_, socket_, timers, revival_handler_, subs,
                   handlers, reads, strand, pool, destroyed, given,
                   clears, events, revived,
                   frames,
                   writes, sends>>

\* What the peer may send, and how a read may end.
Headers ==
    [magic : {magic_value, 0}, command : Commands,
     payload_length : Lengths, checksum : {0}]
Buffers(n) == [1..n -> Byte]
Zeros(n) == [j \in 1..n |-> 0]
ReadStatus == {"success"} \cup TransportErrors

RECURSIVE SumSeq(_)
SumSeq(p) == IF p = <<>> THEN 0 ELSE Head(p) + SumSeq(Tail(p))

\* bitcoin_checksum (math/checksum.hpp) is not among the sources: the first
\* four bytes of the double SHA-256 of the payload, here a digest of the
\* payload's bytes and length that fits checksum_size bytes.
bitcoin_checksum(p) == (SumSeq(p) + Len(p)) % 2

\* from_little_endian<uint32_t>(begin, end) over bytes of one bit.
RECURSIVE from_little_endian(_)
from_little_endian(b) ==
    IF b = <<>> THEN 0 ELSE Head(b) + 2 * from_little_endian(Tail(b))

\* The outstanding reads of one kind, and the reads without the i-th.
Outstanding(kind) == {i \in DOMAIN reads : reads[i].kind = kind}
Without(i) == [j \in 1..(Len(reads) - 1) |-> IF j < i THEN reads[j] ELSE reads[j + 1]]

\* An outstanding read of size bytes ends with status ec after bytes bytes
\* and the handler f bound by dispatch_.sync is run on the strand with the
\* header it was bound to, one handler at a time.  A success has read everything; a buffer not read in
\* full is left zero.  When the channel is stopped the handler returns at
\* its test.  The events from outside are the header that arrives and the
\* read that fails; the rest of an arrived frame follows its header.
sync(i, f, header, size, ec, bytes, buf) ==
    /\ ~destroyed
    /\ strand = <<>>
    /\ reads' = Without(i)
    /\ IF stopped_
         THEN UNCHANGED <<strand, events>>
         ELSE /\ ec = "success" => bytes = size
              /\ bytes # size => buf = Zeros(size)
              /\ f # "handle_read_header" /\ ec = "success"
                    => UNCHANGED events
              /\ f = "handle_read_header" \/ ec # "success"
                    => events < MaxEvents /\ events' = events + 1
              /\ strand' = <<[O(f) EXCEPT !.ec = ec, !.bytes = bytes,
                                          !.hdr = header, !.p = buf]>>
    /\ UNCHANGED <<stopped_, socket_, timers, revival_handler_, subs,
                   handlers, caller, pool, started, destroyed, given, clears,
                   revived, frames,
                   writes, sends>>

\* The header read ends: inbound_header_ holds a header of the peer's.
sync_handle_read_header ==
    \E i \in Outstanding("header"), ec \in ReadStatus, header \in Headers :
        /\ ec # "success" => header = NoHeader
        /\ sync(i, "handle_read_header", header, 0, ec, 0, <<>>)

\* The checksum read ends: inbound_checksum_ holds what was read.
sync_handle_read_checksum ==
    \E i \in Outstanding("checksum"), ec \in ReadStatus,
       bytes_transferred \in 0..checksum_size,
       inbound_checksum_ \in Buffers(checksum_size) :
        sync(i, "handle_read_checksum", reads[i].hdr, checksum_size, ec,
             bytes_transferred, inbound_checksum_)

\* The payload read ends: inbound_payload_ holds what was read.
sync_handle_read_payload ==
    \E i \in Outstanding("payload"), ec \in ReadStatus :
        \E bytes_transferred \in 0..reads[i].hdr.payload_length,
           inbound_payload_ \in Buffers(reads[i].hdr.payload_length) :
            sync(i, "handle_read_payload", reads[i].hdr,
                 reads[i].hdr.payload_length, ec, bytes_transferred,
                 inbound_payload_)

\* handle_read_header as it would be without the test of the magic.
handle_read_header_any_magic(th) ==
    LET op == Head(th.ops) IN
    /\ op.f = "handle_read_header"
    /\ IF stopped_
         THEN /\ Cont(th, Tail(th.ops), {})
              /\ UNCHANGED <<given, frames>>
         ELSE IF op.ec # "success"
         THEN /\ Cont(th, Tail(th.ops), stop(op.ec))
              /\ given' = Given(op.ec)
              /\ UNCHANGED frames
         ELSE /\ Cont(th, <<[O("read_checksum") EXCEPT !.hdr = op.hdr],
                            O("start_inactivity")>> \o Tail(th.ops), {})
              /\ frames' = frames + 1
              /\ UNCHANGED given
    /\ UNCHANGED <<stopped_, socket_, timers, revival_handler_, subs,
                   handlers, reads, started, destroyed, clears, events,
                   revived,
                   writes, sends>>

\* handle_read_header(ec, bytes_transferred).
handle_read_header(th) ==
    LET op == Head(th.ops) IN
    /\ op.f = "handle_read_header"
    /\ IF stopped_
         THEN /\ Cont(th, Tail(th.ops), {})
              /\ UNCHANGED <<given, frames>>
         ELSE IF op.ec # "success"
         THEN /\ Cont(th, Tail(th.ops), stop(op.ec))
              /\ given' = Given(op.ec)
              /\ UNCHANGED frames
         ELSE IF op.hdr.magic # magic_value
         THEN /\ Cont(th, Tail(th.ops), stop("bad_stream"))
              /\ given' = Given("bad_stream")
              /\ UNCHANGED frames
         ELSE /\ Cont(th, <<[O("read_checksum") EXCEPT !.hdr = op.hdr],
                            O("start_inactivity")>> \o Tail(th.ops), {})
              /\ frames' = frames + 1
              /\ UNCHANGED given
    /\ UNCHANGED <<stopped_, socket_, timers, revival_handler_, subs,
                   handlers, reads, started, destroyed, clears, events,
                   revived,
                   writes, sends>>

\* handle_read_checksum as it would be without its start_inactivity().
handle_read_checksum_no_rearm(th) ==
    LET op == Head(th.ops) IN
    /\ op.f = "handle_read_checksum"
    /\ IF stopped_
         THEN /\ Cont(th, Tail(th.ops), {})
              /\ UNCHANGED given
         ELSE IF op.ec # "success"
                 /\ (op.bytes # checksum_size \/ op.bytes # Len(op.p))
         THEN /\ Cont(th, Tail(th.ops), stop(op.ec))
              /\ given' = Given(op.ec)
         ELSE /\ Cont(th, <<[O("read_payload") EXCEPT !.hdr =
                                [op.hdr EXCEPT !.checksum = from_little_endian(op.p)]]>>
                          \o Tail(th.ops), {})
              /\ UNCHANGED given
    /\ UNCHANGED <<stopped_, socket_, timers, revival_handler_, subs,
                   handlers, reads, started, destroyed, clears, events,
                   revived, frames,
                   writes, sends>>

\* handle_read_checksum(ec, bytes_transferred, header).  An error with all
\* the bytes read is let through.
handle_read_checksum(th) ==
    LET op == Head(th.ops) IN
    /\ op.f = "handle_read_checksum"
    /\ IF stopped_
         THEN /\ Cont(th, Tail(th.ops), {})
              /\ UNCHANGED given
         ELSE IF op.ec # "success"
                 /\ (op.bytes # checksum_size \/ op.bytes # Len(op.p))
         THEN /\ Cont(th, Tail(th.ops), stop(op.ec))
              /\ given' = Given(op.ec)
         ELSE /\ Cont(th, <<[O("read_payload") EXCEPT !.hdr =
                                [op.hdr EXCEPT !.checksum = from_little_endian(op.p)]],
                            O("start_inactivity")>> \o Tail(th.ops), {})
              /\ UNCHANGED given
    /\ UNCHANGED <<stopped_, socket_, timers, revival_handler_, subs,
                   handlers, reads, started, destroyed, clears, events,
                   revived, frames,
                   writes, sends>>

\* handle_read_payload as it would be without the test of the checksum.
handle_read_payload_any_checksum(th) ==
    LET op == Head(th.ops) IN
    /\ op.f = "handle_read_payload"
    /\ IF stopped_
         THEN /\ Cont(th, Tail(th.ops), {})
              /\ UNCHANGED given
         ELSE IF op.ec # "success"
                 /\ (op.bytes # op.hdr.payload_length \/ op.bytes # Len(op.p))
         THEN /\ Cont(th, Tail(th.ops), stop(op.ec))
              /\ given' = Given(op.ec)
         ELSE /\ Cont(th, <<[O("relay_raw") EXCEPT !.hdr = op.hdr, !.p = op.p]>>
                          \o (IF op.ec = "success" THEN <<O("read_header")>> ELSE <<>>)
                          \o <<O("start_inactivity"),
                               [O("load") EXCEPT !.k = op.hdr.command, !.p = op.p]>>
                          \o (IF op.ec # "success"
                                THEN <<[O("stop") EXCEPT !.ec = op.ec]>> ELSE <<>>)
                          \o Tail(th.ops), {})
              /\ UNCHANGED given
    /\ UNCHANGED <<stopped_, socket_, timers, revival_handler_, subs,
                   handlers, reads, started, destroyed, clears, events,
                   revived, frames,
                   writes, sends>>

\* handle_read_payload as it would be if a command that is in no registry
\* were a protocol error.
handle_read_payload_known_only(th) ==
    LET op == Head(th.ops) IN
    /\ op.f = "handle_read_payload"
    /\ IF stopped_
         THEN /\ Cont(th, Tail(th.ops), {})
              /\ UNCHANGED given
         ELSE IF op.ec # "success"
                 /\ (op.bytes # op.hdr.payload_length \/ op.bytes # Len(op.p))
         THEN /\ Cont(th, Tail(th.ops), stop(op.ec))
              /\ given' = Given(op.ec)
         ELSE IF op.hdr.checksum # bitcoin_checksum(op.p)
                 \/ op.hdr.command \notin MessageSet
         THEN /\ Cont(th, Tail(th.ops), stop("bad_stream"))
              /\ given' = Given("bad_stream")
         ELSE /\ Cont(th, <<[O("relay_raw") EXCEPT !.hdr = op.hdr, !.p = op.p]>>
                          \o (IF op.ec = "success" THEN <<O("read_header")>> ELSE <<>>)
                          \o <<O("start_inactivity"),
                               [O("load") EXCEPT !.k = op.hdr.command, !.p = op.p]>>
                          \o (IF op.ec # "success"
                                THEN <<[O("stop") EXCEPT !.ec = op.ec]>> ELSE <<>>)
                          \o Tail(th.ops), {})
              /\ UNCHANGED given
    /\ UNCHANGED <<stopped_, socket_, timers, revival_handler_, subs,
                   handlers, reads, started, destroyed, clears, events,
                   revived, frames,
                   writes, sends>>

\* handle_read_payload(ec, bytes_transferred, header), up to the relay to the
\* raw subscriber.  What follows the checks is done in the order of the
\* code: the raw relay, read_header() unless ec, start_inactivity(), the
\* load of the message, stop(ec) if ec.
handle_read_payload(th) ==
    LET op == Head(th.ops) IN
    /\ op.f = "handle_read_payload"
    /\ IF stopped_
         THEN /\ Cont(th, Tail(th.ops), {})
              /\ UNCHANGED given
         ELSE IF op.ec # "success"
                 /\ (op.bytes # op.hdr.payload_length \/ op.bytes # Len(op.p))
         THEN /\ Cont(th, Tail(th.ops), stop(op.ec))
              /\ given' = Given(op.ec)
         ELSE IF op.hdr.checksum # bitcoin_checksum(op.p)
         THEN /\ Cont(th, Tail(th.ops), stop("bad_stream"))
              /\ given' = Given("bad_stream")
         ELSE /\ Cont(th, <<[O("relay_raw") EXCEPT !.hdr = op.hdr, !.p = op.p]>>
                          \o (IF op.ec = "success" THEN <<O("read_header")>> ELSE <<>>)
                          \o <<O("start_inactivity"),
                               [O("load") EXCEPT !.k = op.hdr.command, !.p = op.p]>>
                          \o (IF op.ec # "success"
                                THEN <<[O("stop") EXCEPT !.ec = op.ec]>> ELSE <<>>)
                          \o Tail(th.ops), {})
              /\ UNCHANGED given
    /\ UNCHANGED <<stopped_, socket_, timers, revival_handler_, subs,
                   handlers, reads, started, destroyed, clears, events,
                   revived, frames,
                   writes, sends>>

\* raw_subscriber_->relay(error::success, header, inbound_payload_);
relay_raw(th) ==
    LET to == relay([s |-> subs, h |-> handlers], "raw", "success", "frame") IN
    /\ Head(th.ops).f = "relay_raw"
    /\ subs' = to.s
    /\ handlers' = to.h
    /\ Cont(th, Tail(th.ops), {})
    /\ UNCHANGED <<stopped_, socket_, timers, revival_handler_, reads,
                   started, destroyed, given, clears, events, revived,
                   frames,
                   writes, sends>>

\* The decoders (message::*::from_data) are not among the sources: a body
\* shorter than the message's least size does not decode.
MinBody == 1
decodes(p) == Len(p) >= MinBody

\* stream_loader_.load(header.command, istream).  The loader is not among
\* the sources; by the specification's "Message Registry" a registered
\* command is decoded and the value relayed to the message's subscriber.
\* handle_read_payload uses the result only for a warning.
load(th) ==
    LET op == Head(th.ops)
        ch == [s |-> subs, h |-> handlers]
        to == IF op.k \in MessageSet /\ decodes(op.p)
                THEN relay(ch, op.k, "success", "decoded") ELSE ch
    IN
    /\ op.f = "load"
    /\ subs' = to.s
    /\ handlers' = to.h
    /\ Cont(th, Tail(th.ops), {})
    /\ UNCHANGED <<stopped_, socket_, timers, revival_handler_, reads,
                   started, destroyed, given, clears, events, revived,
                   frames,
                   writes, sends>>

\* `if (ec) stop(ec);` at the end of handle_read_payload.
stop_on_error(th) ==
    LET op == Head(th.ops) IN
    /\ op.f = "stop"
    /\ Cont(th, Tail(th.ops), stop(op.ec))
    /\ given' = Given(op.ec)
    /\ UNCHANGED <<stopped_, socket_, timers, revival_handler_, subs,
                   handlers, reads, started, destroyed, clears, events,
                   revived,
                   frames,
                   writes, sends>>

\* ------------------------------------------------------------ sending
\* What the handler given with a message to send_raw has received: the
\* number n of its invocations and the status st of the last one.
NoSend == [used |-> FALSE, n |-> 0, st |-> "success"]

Unsent == {m \in 1..MaxSends : ~sends[m].used}
NextSend == CHOOSE m \in Unsent : \A l \in Unsent : m <= l

\* handle_send(ec) for message m.
handle_send(m, ec) ==
    sends' = [sends EXCEPT ![m] = [@ EXCEPT !.n = @ + 1, !.st = ec]]

\* send_raw(packet_header, payload, handle_send) called from outside: if
\* stopped, handle_send(channel_stopped), else do_send_raw is queued.
send_raw ==
    /\ ~destroyed
    /\ Unsent # {}
    /\ events < MaxEvents
    /\ events' = events + 1
    /\ IF stopped_
         THEN /\ sends' = [sends EXCEPT ![NextSend] =
                     [used |-> TRUE, n |-> 1, st |-> "channel_stopped"]]
              /\ UNCHANGED pool
         ELSE /\ sends' = [sends EXCEPT ![NextSend].used = TRUE]
              /\ pool' = queue(pool, {<<[O("do_send_raw") EXCEPT !.h = NextSend]>>})
    /\ UNCHANGED <<stopped_, socket_, timers, revival_handler_, subs,
                   handlers, reads, caller, strand, started, destroyed,
                   given, clears, revived, frames, writes>>

\* do_send_raw as it would be if it only returned on a stopped channel.
do_send_raw_returns(th) ==
    LET op == Head(th.ops) IN
    /\ op.f = "do_send_raw"
    /\ Cont(th, IF stopped_ THEN Tail(th.ops)
                ELSE <<[op EXCEPT !.f = "do_send"]>> \o Tail(th.ops), {})
    /\ UNCHANGED <<stopped_, socket_, timers, revival_handler_, subs,
                   handlers, reads, started, destroyed, given, clears,
                   events, revived, frames, writes, sends>>

\* do_send_raw(packet_header, payload, handle_send), run by a pool worker:
\* if stopped, handle_send(channel_stopped), else do_send of the message.
do_send_raw(th) ==
    LET op == Head(th.ops) IN
    /\ op.f = "do_send_raw"
    /\ IF stopped_
         THEN /\ handle_send(op.h, "channel_stopped")
              /\ Cont(th, Tail(th.ops), {})
         ELSE /\ Cont(th, <<[op EXCEPT !.f = "do_send"]>> \o Tail(th.ops), {})
              /\ UNCHANGED sends
    /\ UNCHANGED <<stopped_, socket_, timers, revival_handler_, subs,
                   handlers, reads, started, destroyed, given, clears,
                   events, revived, frames, writes>>

\* do_send(message, handle_send, command): if stopped,
\* handle_send(channel_stopped), else async_write(*socket_, ...).
do_send(th) ==
    LET op == Head(th.ops) IN
    /\ op.f = "do_send"
    /\ IF op.pc = 0
         THEN IF stopped_
                THEN /\ handle_send(op.h, "channel_stopped")
                     /\ Cont(th, Tail(th.ops), {})
                     /\ UNCHANGED writes
                ELSE /\ Cont(th, Again(th), {})
                     /\ UNCHANGED <<writes, sends>>
         ELSE /\ writes' = Append(writes, op.h)
              /\ Cont(th, Tail(th.ops), {})
              /\ UNCHANGED sends
    /\ UNCHANGED <<stopped_, socket_, timers, revival_handler_, subs,
                   handlers, reads, started, destroyed, given, clears,
                   events, revived, frames>>

\* call_handle_send(ec, handle_send): an outstanding write ends and the
\* send handler is given its status; a write on a closed socket fails.
call_handle_send ==
    /\ ~destroyed
    /\ \E i \in DOMAIN writes, ec \in ReadStatus :
        /\ socket_ = "closed" => ec # "success"
        /\ handle_send(writes[i], ec)
        /\ writes' = [j \in 1..(Len(writes) - 1) |->
                         IF j < i THEN writes[j] ELSE writes[j + 1]]
    /\ UNCHANGED <<stopped_, socket_, timers, revival_handler_, subs,
                   handlers, reads, caller, strand, pool, started, destroyed,
                   given, clears, events, revived, frames>>

\* ------------------------------------------------------------ lifetime
\* Every queued task, outstanding read and armed timer holds a shared
\* pointer to the channel: the destructor runs when there is none.
Released ==
    /\ caller = <<>> /\ strand = <<>> /\ pool = EmptyBag
    /\ reads = <<>>
    /\ writes = <<>>
    /\ \A t \in Timers : timers[t] = "idle"

\* ~channel_proxy(): do_stop(error::channel_stopped), on the thread that
\* drops the last pointer.
destructor ==
    /\ ~destroyed
    /\ Released
    /\ destroyed' = TRUE
    /\ IF stopped_
         THEN UNCHANGED <<stopped_, socket_, timers, revival_handler_, subs,
                          handlers, clears, given>>
         ELSE /\ stopped_' = TRUE
              /\ clear_timers
              /\ socket_' = "closed"
              /\ clear_subscriptions("channel_stopped")
              /\ given' = Given("channel_stopped")
    /\ UNCHANGED <<reads, caller, strand, pool, started, events, revived,
                   frames,
                   writes, sends>>

\* -------------------------------------------------------- specification
Init ==
    /\ stopped_ = FALSE
    /\ socket_ = "open"
    /\ timers = [t \in Timers |-> "idle"]
    /\ revival_handler_ = FALSE
    /\ subs = [k \in Kinds |-> [pending |-> {}, term |-> "success"]]
    /\ handlers = [h \in 1..MaxHandlers |-> NoHandler]
    /\ reads = <<>>
    /\ caller = <<>>
    /\ strand = <<>>
    /\ pool = EmptyBag
    /\ started = FALSE
    /\ destroyed = FALSE
    /\ given = {}
    /\ clears = 0
    /\ events = 0
    /\ frames = 0
    /\ revived = 0
    /\ writes = <<>>
    /\ sends = [m \in 1..MaxSends |-> NoSend]

\* One step of a thread: the step of the operation at its head.
Exec(th) ==
    \/ do_stop(th)
    \/ subscribe_message(th)
    \/ subscribe(th)
    \/ subscribe_raw(th)
    \/ subscribe_stop(th)
    \/ start_timers(th)
    \/ start_expiration(th)
    \/ start_inactivity(th)
    \/ start_revival(th)
    \/ handle_timer(th)
    \/ read_header(th)
    \/ read_checksum(th)
    \/ read_payload(th)
    \/ handle_read_header(th)
    \/ handle_read_checksum(th)
    \/ handle_read_payload(th)
    \/ relay_raw(th)
    \/ load(th)
    \/ stop_on_error(th)
    \/ do_send_raw(th)
    \/ do_send(th)

Next ==
    \/ start
    \/ Subscribe
    \/ Stop
    \/ set_revival_handler
    \/ reset_revival
    \/ sync_handle_read_header
    \/ sync_handle_read_checksum
    \/ sync_handle_read_payload
    \/ handle_expiration
    \/ handle_inactivity
    \/ handle_revival
    \/ send_raw
    \/ call_handle_send
    \/ destructor
    \/ \E th \in Running : Exec(th)

Spec == Init /\ [][Next]_vars

\* The executor runs what it was given: a thread that has an operation to
\* do takes its step in the end.
FairSpec == Spec /\ WF_vars(\E th \in Running : Exec(th))

\* The channel with a clock: the expiration timer runs out in the end, and
\* the executor runs what it was given.
LiveNext == Next \/ expire

LiveSpec ==
    /\ Init
    /\ [][LiveNext]_vars
    /\ WF_vars(\E th \in Running : Exec(th))
    /\ WF_vars(expire)

\* --------------------------------------------------------------- claims
HandlerIds == 1..MaxHandlers
Typed(h) == handlers[h].k \in MessageSet
Range(q) == {q[i] : i \in DOMAIN q}

\* No thread of the channel has anything left to do.
Quiet == caller = <<>> /\ strand = <<>> /\ pool = EmptyBag

\* Handler h gets one more invocation, from a relay, with st and val.
Notified(h, st, val) == handlers'[h] = Invoke(handlers[h], st, val, "relay")

\* The pool task th is a do_stop that runs its clear_subscriptions(ec) in
\* this step.
Clearing(th) ==
    /\ th.who = "pool"
    /\ Head(th.ops).f = "do_stop"
    /\ Head(th.ops).pc = 3
    /\ clears' = clears + 1
    /\ pool' = pool (-) SetToBag({th.ops})

\* The calling thread's subscribe_* call makes its test of stopped() in this
\* step and finds the channel stopped.
FindsStopped(op) ==
    /\ caller # <<>>
    /\ op = Head(caller)
    /\ op.f \in {"subscribe_message", "subscribe_raw", "subscribe_stop"}
    /\ op.pc = 0
    /\ stopped_
    /\ caller' # caller

\* C1: each handler passed to a subscribe_* call is invoked exactly once:
\* never twice, and once by the time the channel has stopped and every
\* thread has finished.
C1_ExactlyOnce ==
    /\ \A h \in HandlerIds : handlers[h].n <= 1
    /\ stopped_ /\ Quiet =>
          \A h \in HandlerIds : handlers[h].k # "" => handlers[h].n = 1

\* C2: over the lifetime of a channel clear_subscriptions runs exactly once:
\* never a second time, whatever do_stop tasks run on the workers, and once
\* by the time the channel is destroyed.
C2_ClearedOnce ==
    /\ clears <= 1
    /\ destroyed => clears = 1

Handles(op, f) ==
    /\ strand # <<>>
    /\ op = Head(strand)
    /\ op.f = f
    /\ ~stopped_
    /\ ~stopped_'
    /\ strand' # strand

\* The tasks as they are once stop(ec) has queued its do_stop.
Stopping(ec) == pool (+) SetToBag({<<[O("do_stop") EXCEPT !.ec = ec]>>})

\* C6: once stopped_ is true no new read and no new write is started on the
\* socket.
C6_NoIoOnceStopped ==
    [][stopped_ => Len(reads') <= Len(reads) /\ Len(writes') <= Len(writes)]_vars

\* C7: when handle_read_payload finds the checksum of the payload it was
\* given to differ from the header's, it calls stop(bad_stream) and ends: no
\* subscriber is relayed the frame, no handler is invoked and no read is
\* started; a frame that goes on to the raw relay has a matching checksum.
C7_ChecksumMismatch ==
    /\ [](\A i \in DOMAIN strand :
            strand[i].f = "relay_raw"
                => strand[i].hdr.checksum = bitcoin_checksum(strand[i].p))
    /\ [][\A op \in {o \in Range(strand) : o.f = "handle_read_payload"} :
            /\ Handles(op, "handle_read_payload")
            /\ op.ec = "success" \/ op.bytes = op.hdr.payload_length
            /\ op.hdr.checksum # bitcoin_checksum(op.p)
            => /\ strand' = <<>>
               /\ pool' = Stopping("bad_stream")
               /\ "bad_stream" \in given'
               /\ UNCHANGED <<subs, handlers, reads>>]_vars

C7_Witness ==
    /\ "bad_stream" \in given
    /\ frames = 1
    /\ strand = <<>>
    /\ reads = <<>>
    /\ \E h \in subs["raw"].pending : handlers[h].n = 0

\* C8: when handle_read_header is given a header read without error whose
\* magic is not magic_value, it calls stop(bad_stream) and ends: no read is
\* started and no handler invoked; the do_stop(bad_stream) that runs the
\* terminal relay has closed the socket and gives bad_stream to the pending
\* stop handlers; and before a first header is accepted no handler has
\* received a frame or a decoded message.
C8_BadMagic ==
    /\ [](frames = 0 =>
            \A h \in HandlerIds : handlers[h].val \notin {"frame", "decoded"})
    /\ [][/\ \A op \in {o \in Range(strand) : o.f = "handle_read_header"} :
                /\ Handles(op, "handle_read_header")
                /\ op.ec = "success"
                /\ op.hdr.magic # magic_value
                => /\ strand' = <<>>
                   /\ pool' = Stopping("bad_stream")
                   /\ "bad_stream" \in given'
                   /\ UNCHANGED <<subs, handlers, reads, frames>>
          /\ \A th \in Running :
                Clearing(th) /\ Head(th.ops).ec = "bad_stream"
                => /\ socket_ = "closed"
                   /\ \A h \in subs["stop"].pending :
                         Notified(h, "bad_stream", "none")]_vars

C8_Witness ==
    /\ given = {"bad_stream"}
    /\ frames = 0
    /\ socket_ = "closed"
    /\ reads = <<>>
    /\ \E h \in HandlerIds :
        handlers[h].k = "stop" /\ handlers[h].st = "bad_stream"

\* C9: no payload read is started for a header whose payload_length is
\* above the bound.
C9_PayloadBound ==
    \A i \in DOMAIN reads :
        reads[i].kind = "payload"
            => reads[i].hdr.payload_length <= PayloadLimit

\* C10: when the decoder of a registered command fails on the payload of a
\* frame that passed the magic and checksum checks (here: a frame read
\* without error, so that the load ends its handler), stop(bad_stream) is
\* called.
C10_DecodeFailureStops ==
    [][\A op \in {o \in Range(strand) : o.f = "load"} :
        /\ strand = <<op>>
        /\ strand' # strand
        /\ ~stopped_
        /\ op.k \in MessageSet
        /\ ~decodes(op.p)
        => pool' = Stopping("bad_stream")]_vars

\* The frame that the operations on the strand belong to was read without
\* error: no stop(ec) ends the handler.
FrameOk == \A i \in DOMAIN strand : strand[i].f # "stop"

\* The operation f at the head of the strand takes its step.
Runs(f) ==
    /\ strand # <<>>
    /\ Head(strand).f = f
    /\ strand' # strand

\* C11: a frame read without error whose checksum matches and whose command
\* is in no registry goes to the raw relay, read_header, start_inactivity and
\* the load, and no stop is called; its raw relay invokes the pending raw
\* handlers with success and the frame and no other handler; its load
\* invokes no handler and changes no subscriber; and its read_header starts
\* a header read.
C11_UnknownCommand ==
    [][/\ \A op \in {o \in Range(strand) : o.f = "handle_read_payload"} :
            /\ Handles(op, "handle_read_payload")
            /\ op.ec = "success"
            /\ op.hdr.checksum = bitcoin_checksum(op.p)
            /\ op.hdr.command \notin MessageSet
            => /\ strand' = <<[O("relay_raw") EXCEPT !.hdr = op.hdr, !.p = op.p],
                              O("read_header"), O("start_inactivity"),
                              [O("load") EXCEPT !.k = op.hdr.command, !.p = op.p]>>
               /\ UNCHANGED <<pool, given, subs, handlers>>
       /\ Runs("relay_raw") /\ Head(strand).hdr.command \notin MessageSet
            => /\ \A h \in HandlerIds :
                    IF h \in subs["raw"].pending
                        THEN Notified(h, "success", "frame")
                        ELSE handlers'[h] = handlers[h]
               /\ UNCHANGED <<pool, given>>
       /\ Runs("load") /\ Head(strand).k \notin MessageSet
            => UNCHANGED <<subs, handlers, pool, given>>
       /\ Runs("read_header") /\ Head(strand).pc = 1
            => reads' = Append(reads, [kind |-> "header", hdr |-> NoHeader])]_vars

C11_Witness ==
    /\ ~stopped_
    /\ given = {}
    /\ strand # <<>>
    /\ Head(strand).f = "load"
    /\ Head(strand).k \notin MessageSet
    /\ Outstanding("header") # {}
    /\ \E h \in HandlerIds :
        /\ handlers[h].k = "raw" /\ handlers[h].n = 1
        /\ handlers[h].st = "success" /\ handlers[h].val = "frame"

\* A do_stop(channel_timeout) is queued or running.
TimedOut ==
    \E t \in BagToSet(pool) :
        Head(t).f = "do_stop" /\ Head(t).ec = "channel_timeout"

\* C12: a fire of the expiration or of the inactivity timer on a channel
\* that is not stopped queues do_stop(channel_timeout); under fairness the
\* channel is then stopped, its socket closed and the terminal relay run;
\* the terminal relay invokes every pending stop handler with the status of
\* its do_stop; and when channel_timeout is the only status given to stop,
\* the stop handlers the terminal relay invokes receive channel_timeout.
C12_TimeoutStops ==
    /\ [][\A t \in {"expiration", "inactivity"} :
            /\ ~stopped_
            /\ timers[t] = "armed" /\ timers'[t] = "idle"
            /\ events' = events + 1
            => /\ pool' = Stopping("channel_timeout")
               /\ "channel_timeout" \in given']_vars
    /\ [](given = {"channel_timeout"} =>
            \A h \in HandlerIds :
                handlers[h].k = "stop" /\ handlers[h].how = "relay"
                    => handlers[h].st = "channel_timeout")
    /\ TimedOut ~> (stopped_ /\ socket_ = "closed" /\ clears >= 1)
    /\ [][\A th \in Running :
            Clearing(th) =>
                \A h \in subs["stop"].pending :
                    Notified(h, Head(th.ops).ec, "none")]_vars

C12_Witness ==
    /\ stopped_
    /\ given = {"channel_timeout"}
    /\ clears = 1
    /\ \E h \in HandlerIds :
        /\ handlers[h].k = "stop" /\ handlers[h].how = "relay"
        /\ handlers[h].st = "channel_timeout"

\* C13: a fire of the revival timer on a channel that is not stopped calls
\* the revival handler once if one is installed and not at all otherwise,
\* and changes nothing else but the revival timer: not the stopped flag, no
\* subscriber or handler, no read, no thread's operations, no queued task,
\* not the other two timers, not the installed handler.
C13_RevivalFire ==
    /\ [](revived > 0 /\ given = {} /\ ~destroyed => ~stopped_)
    /\ [][/\ ~stopped_
          /\ timers["revival"] = "armed" /\ timers'["revival"] = "idle"
          /\ events' = events + 1
          => /\ revived' = IF revival_handler_ THEN revived + 1 ELSE revived
             /\ timers'["expiration"] = timers["expiration"]
             /\ timers'["inactivity"] = timers["inactivity"]
             /\ UNCHANGED <<stopped_, socket_, revival_handler_, subs,
                            handlers, reads, caller, strand, pool, given,
                            clears>>]_vars

C13_Witness ==
    /\ revived = 1
    /\ ~stopped_
    /\ given = {}
    /\ timers["revival"] = "idle"
    /\ timers["inactivity"] = "armed"
    /\ Outstanding("header") # {}

\* C14: at most one socket write of the channel is in progress at any time.
C14_OneWrite == Len(writes) <= 1

\* C15: on a channel started once at most one read is outstanding, and a
\* payload read that ended with an error and all its bytes is followed by no
\* read at all.
C15_OneRead ==
    /\ Len(reads) <= 1
    /\ \A i \in DOMAIN strand :
          strand[i].f = "stop" =>
              /\ reads = <<>>
              /\ \A j \in DOMAIN strand :
                    strand[j].f \notin {"read_header", "read_checksum",
                                        "read_payload"}

C15_Witness ==
    /\ ~stopped_
    /\ reads = <<>>
    /\ strand # <<>>
    /\ Head(strand).f = "load"
    /\ \E i \in DOMAIN strand :
          strand[i].f = "stop" /\ strand[i].ec \in TransportErrors

\* A do_stop has passed its test of stopped() and is not finished.
InDoStop ==
    \E t \in BagToSet(pool) : Head(t).f = "do_stop" /\ Head(t).pc > 0

\* A subscribe_* call has passed its test of stopped() and has not yet
\* registered its handler.
InSubscribe ==
    /\ caller # <<>>
    /\ \/ Head(caller).f = "subscribe"
       \/ Head(caller).f \in {"subscribe_raw", "subscribe_stop"}
            /\ Head(caller).pc = 1

\* C16: the read handlers, do_stop and the registrations of subscribe_*
\* exclude each other: while a do_stop is in progress no read handler has
\* an operation left to do and no subscribe_* call is between its test of
\* stopped() and its registration.
C16_OnStrand == InDoStop => strand = <<>> /\ ~InSubscribe

ReadHandlers == {"handle_read_header", "handle_read_checksum", "handle_read_payload"}
ReadSteps == {"read_header", "read_checksum", "read_payload"}

\* C17 as the specification states it: whenever a read is outstanding and
\* the channel is not stopped the inactivity timer is armed.
C17_ArmedWhileReading ==
    ~stopped_ /\ reads # <<>> => timers["inactivity"] = "armed"

\* C17, amended: when a read is outstanding, the channel is not stopped and
\* no thread has an operation of the channel left to do, the inactivity timer
\* is armed; a read handler that issues a next read calls start_inactivity
\* right after it; and start_inactivity, past its test, arms the timer.
C17_InactivityRearmed ==
    /\ [](Quiet /\ ~stopped_ /\ ~destroyed /\ reads # <<>>
            => timers["inactivity"] = "armed")
    /\ [][/\ \A op \in {o \in Range(strand) : o.f \in ReadHandlers} :
                /\ Handles(op, op.f)
                /\ strand' # <<>>
                /\ Head(strand').f \in ReadSteps
                => /\ Len(strand') >= 2
                   /\ strand'[2] = O("start_inactivity")
          /\ Runs("relay_raw") /\ Len(strand) >= 2 /\ strand[2].f = "read_header"
                => /\ Len(strand) >= 3
                   /\ strand[3] = O("start_inactivity")
          /\ Runs("start_inactivity") /\ Head(strand).pc = 1
                => timers' = [timers EXCEPT !["inactivity"] = "armed"]]_vars

C17_Witness ==
    /\ Quiet
    /\ ~stopped_
    /\ frames = 1
    /\ Outstanding("payload") # {}
    /\ timers["inactivity"] = "armed"

\* C18: once do_stop has cancelled the timers and closed the socket no timer
\* is armed.
C18_NoTimerOnceStopped ==
    stopped_ /\ socket_ = "closed" => \A t \in Timers : timers[t] = "idle"

\* C19: on a channel that is not stopped, a handler that is given a frame
\* read without error, or the message decoded from it, runs when the next
\* header read has been started.
C19_ReadBeforeHandlers ==
    [][\A h \in HandlerIds :
        /\ handlers'[h].n > handlers[h].n
        /\ handlers'[h].st = "success"
        /\ ~stopped_
        /\ FrameOk
        => Outstanding("header") # {}]_vars

\* The count of bytes the read that ran handler op was started for.
Expected(op) ==
    IF op.f = "handle_read_checksum" THEN checksum_size
    ELSE op.hdr.payload_length

\* C20: a checksum read or a payload read that ends with an error and all
\* its bytes (the payload's checksum matching) is processed, and stop(ec)
\* with that error ends the processing.
C20_ErrorStillStops ==
    [][\A op \in {o \in Range(strand) :
                    o.f \in {"handle_read_checksum", "handle_read_payload"}} :
        /\ Handles(op, op.f)
        /\ op.ec # "success"
        /\ op.bytes = Expected(op)
        /\ op.f = "handle_read_payload"
              => op.hdr.checksum = bitcoin_checksum(op.p)
        => /\ strand' # <<>>
           /\ strand'[Len(strand')] = [O("stop") EXCEPT !.ec = op.ec]]_vars

\* The queued task o takes a step, or is dropped, in this step.
Leaves(o) == CopiesIn(o, pool') < CopiesIn(o, pool)

\* C21: a timer handler that a worker runs with the cancelled status on a
\* channel that is not stopped ends without any effect; a timer that fires
\* on a stopped channel changes nothing but itself: no stop is called, the
\* revival handler is not invoked, and no subscriber, handler or other timer
\* changes; and the cancelled status is never given to stop or to a handler.
C21_TimerNoOp ==
    /\ [](/\ "operation_aborted" \notin given
          /\ \A h \in HandlerIds : handlers[h].st # "operation_aborted")
    /\ [][/\ \A o \in BagToSet(pool) :
                /\ Head(o).f \in TimerHandlers
                /\ canceled(Head(o).ec)
                /\ ~stopped_'
                /\ Leaves(o)
                => /\ pool' = pool (-) SetToBag({o})
                   /\ UNCHANGED <<stopped_, socket_, timers, revival_handler_,
                                  subs, handlers, reads, caller, strand,
                                  given, clears, revived>>
          /\ \A t \in Timers :
                /\ stopped_
                /\ timers[t] = "armed" /\ timers'[t] = "idle"
                /\ events' = events + 1
                => /\ \A u \in Timers \ {t} : timers'[u] = timers[u]
                   /\ UNCHANGED <<stopped_, socket_, revival_handler_, subs,
                                  handlers, reads, caller, strand, pool,
                                  given, clears, revived>>]_vars

\* A whole frame has been read on a running channel and every task has run:
\* the start_inactivity of its checksum and payload steps replaced a pending
\* wait, and the handlers of the replaced waits have run with the cancelled
\* status.
C21_Witness ==
    /\ Quiet
    /\ ~stopped_
    /\ given = {}
    /\ frames = 1
    /\ Outstanding("header") # {}
    /\ \A t \in Timers : timers[t] = "armed"

\* C22: a started channel is stopped in the end; until the channel is
\* stopped nothing takes the expiration timer from armed but its fire, which
\* calls stop(channel_timeout); and the expiration timer is never started
\* again over a pending wait.
C22_Expires ==
    /\ [](\A o \in BagToSet(pool) :
            \A i \in DOMAIN o : o[i].f # "handle_expiration")
    /\ [][/\ ~stopped_
          /\ timers["expiration"] = "armed"
          /\ timers'["expiration"] # "armed"
          => /\ pool' = Stopping("channel_timeout")
             /\ "channel_timeout" \in given']_vars
    /\ started ~> stopped_

C22_Witness ==
    /\ stopped_
    /\ started
    /\ given = {"channel_timeout"}
    /\ frames = 1
    /\ events = 1
    /\ clears = 1

\* C23: the handler given to send_raw is invoked at most once, and once by
\* the time no thread has anything left to do and no write is outstanding;
\* it is invoked with channel_stopped only on a stopped channel and without
\* a write of its message, and otherwise by the completion of the write of
\* its message; while that write is outstanding it has not been invoked.
C23_SendHandledOnce ==
    /\ [](\A m \in 1..MaxSends :
            /\ sends[m].n <= 1
            /\ ~sends[m].used => sends[m].n = 0
            /\ m \in Range(writes) => sends[m].n = 0
            /\ sends[m].used /\ Quiet /\ writes = <<>> => sends[m].n = 1)
    /\ [][\A m \in 1..MaxSends :
            sends'[m].n > sends[m].n =>
                IF sends'[m].st = "channel_stopped"
                    THEN /\ stopped_
                         /\ m \notin Range(writes)
                         /\ writes' = writes
                    ELSE /\ m \in Range(writes)
                         /\ m \notin Range(writes')
                         /\ Len(writes') = Len(writes) - 1]_vars

C23_Witness ==
    /\ stopped_
    /\ Quiet
    /\ writes = <<>>
    /\ clears = 1
    /\ sends[1] = [used |-> TRUE, n |-> 1, st |-> "channel_stopped"]

====
